---------------------------- MODULE Spec2Model ----------------------------
(***************************************************************************)
(* Model of the backup pruner: getPruneDays / runPrune (commands/prune.ts), *)
(* loadConfig (config.ts) and listBackupsWithDates / deleteBackup           *)
(* (s3/s3-delete.ts), together with the part of the object store they talk  *)
(* to (ListObjectsV2, DeleteObjects).                                       *)
(*                                                                         *)
(* Strings the code inspects character by character (folder names, the     *)
(* prefix, PRUNE_DAYS) are sequences of one-character strings.  Instants    *)
(* are Date.getTime() in whole seconds; the model's clock runs in UTC and   *)
(* at second resolution.  An optional value is <<>> (undefined) or <<v>>.   *)
(***************************************************************************)
EXTENDS Integers, Sequences, FiniteSets, TLC

VARIABLES
    env,              \* process.env
    options,          \* the PruneOptions runPrune is called with
    now,              \* the instant new Date() returns
    objects,          \* the object store: folder -> number of objects in it
    pc,               \* where runPrune stands
    pruneDays, warned, cutoffDate,
    config,           \* the Config loadConfig returned (its s3 part)
    backups, backupsToDelete, backupsToKeep,
    idx,              \* position of the for-of loop in backupsToDelete
    deletedCount, errorCount,
    objectsToDelete, i, totalDeleted,   \* locals of the running deleteBackup
    requests,         \* every command sent to the store, in order
    calls,            \* every finished deleteBackup invocation, in order
    exitCodes         \* every process.exit call, in order

vars == <<env, options, now, objects, pc, pruneDays, warned, cutoffDate, config,
          backups, backupsToDelete, backupsToKeep, idx, deletedCount, errorCount,
          objectsToDelete, i, totalDeleted, requests, calls, exitCodes>>

-----------------------------------------------------------------------------
(* Strings *)

Undefined == <<>>
Some(v) == <<v>>
IsDefined(o) == Len(o) = 1
Get(o) == o[1]

DigitChars == <<"0", "1", "2", "3", "4", "5", "6", "7", "8", "9">>
IsDigit(c) == \E k \in 1..10 : DigitChars[k] = c
DigitValue(c) == (CHOOSE k \in 1..10 : DigitChars[k] = c) - 1

\* The characters the model's strings are made of, in code-point order.
Alphabet == <<" ", "+", "-", "/", "0", "1", "2", "3", "4", "5", "6", "7", "8", "9", ":",
              "T", "a", "b", "c", "d", "g", "k", "m", "n", "o", "p", "q", "s", "u", "x">>
Ord(c) == CHOOSE k \in 1..Len(Alphabet) : Alphabet[k] = c

\* n written with w decimal digits.
RECURSIVE Num(_, _)
Num(n, w) == IF w = 0 THEN <<>> ELSE Num(n \div 10, w - 1) \o <<DigitChars[(n % 10) + 1]>>

\* The value of a sequence of decimal digits.
RECURSIVE ToNumber(_)
ToNumber(ds) ==
    IF Len(ds) = 0 THEN 0
    ELSE 10 * ToNumber(SubSeq(ds, 1, Len(ds) - 1)) + DigitValue(ds[Len(ds)])

StartsWith(s, p) == Len(p) <= Len(s) /\ SubSeq(s, 1, Len(p)) = p
EndsWith(s, p) == Len(p) <= Len(s) /\ SubSeq(s, Len(s) - Len(p) + 1, Len(s)) = p

\* Byte-wise order of two strings (the order in which the store lists keys).
RECURSIVE StrLess(_, _)
StrLess(a, b) ==
    IF Len(b) = 0 THEN FALSE
    ELSE IF Len(a) = 0 THEN TRUE
    ELSE IF a[1] = b[1] THEN StrLess(Tail(a), Tail(b))
    ELSE Ord(a[1]) < Ord(b[1])

-----------------------------------------------------------------------------
(* Dates *)

\* A Date: a time value in seconds since the epoch, or an Invalid Date (NaN).
DateOf(t) == [valid |-> TRUE, time |-> t]
InvalidDate == [valid |-> FALSE, time |-> 0]

\* a < b and a >= b on Dates: both false as soon as one side is NaN.
DateLess(a, b) == a.valid /\ b.valid /\ a.time < b.time
DateGeq(a, b) == a.valid /\ b.valid /\ a.time >= b.time

DaysFromCivil(y, m, d) ==
    LET yy  == IF m <= 2 THEN y - 1 ELSE y
        era == yy \div 400
        yoe == yy - era * 400
        mp  == (m + 9) % 12
        doy == (153 * mp + 2) \div 5 + d - 1
        doe == yoe * 365 + yoe \div 4 - yoe \div 100 + doy
    IN  era * 146097 + doe - 719468

UTCSeconds(y, mo, d, h, mi, s) == ((DaysFromCivil(y, mo, d) * 24 + h) * 60 + mi) * 60 + s

\* new Date(`${year}-${month}-${day}T${hour}:${minute}:${second}Z`): the date-time
\* string parser accepts months 01..12, days 01..31 (a day past the month's end
\* runs into the next month), 00:00:00..23:59:59 and 24:00:00; any other field
\* value gives an Invalid Date.
ParseDateTime(year, month, day, hour, minute, second) ==
    LET y  == ToNumber(year)
        mo == ToNumber(month)
        d  == ToNumber(day)
        h  == ToNumber(hour)
        mi == ToNumber(minute)
        s  == ToNumber(second)
    IN  IF /\ mo \in 1..12
           /\ d \in 1..31
           /\ \/ (h \in 0..23 /\ mi \in 0..59 /\ s \in 0..59)
              \/ (h = 24 /\ mi = 0 /\ s = 0)
        THEN DateOf(UTCSeconds(y, mo, d, h, mi, s))
        ELSE InvalidDate

\* A regular expression without repetition: one character class per position.
Digit == {DigitChars[k] : k \in 1..10}
TimestampRegex == <<Digit, Digit, Digit, Digit, {"-"}, Digit, Digit, {"-"}, Digit, Digit, {"-", "T"},
                    Digit, Digit, {"-", ":"}, Digit, Digit, {"-", ":"}, Digit, Digit>>
DateRegex == <<Digit, Digit, Digit, Digit, {"-"}, Digit, Digit, {"-"}, Digit, Digit>>

MatchesAt(s, regex, at) ==
    /\ at + Len(regex) - 1 <= Len(s)
    /\ \A k \in 1..Len(regex) : s[at + k - 1] \in regex[k]

\* String.prototype.match: the position of the leftmost match, 0 when none.
Match(s, regex) ==
    IF \E at \in 1..Len(s) : MatchesAt(s, regex, at)
    THEN CHOOSE at \in 1..Len(s) :
             /\ MatchesAt(s, regex, at)
             /\ \A b \in 1..(at - 1) : ~MatchesAt(s, regex, b)
    ELSE 0

Group(s, at, from, len) == SubSeq(s, at + from, at + from + len - 1)

extractDateFromBackupName(backupName) ==
    LET timestampMatch == Match(backupName, TimestampRegex)
        dateMatch == Match(backupName, DateRegex)
    IN  IF timestampMatch # 0
        THEN Some(ParseDateTime(Group(backupName, timestampMatch, 0, 4),
                                Group(backupName, timestampMatch, 5, 2),
                                Group(backupName, timestampMatch, 8, 2),
                                Group(backupName, timestampMatch, 11, 2),
                                Group(backupName, timestampMatch, 14, 2),
                                Group(backupName, timestampMatch, 17, 2)))
        ELSE IF dateMatch # 0
        THEN Some(ParseDateTime(Group(backupName, dateMatch, 0, 4),
                                Group(backupName, dateMatch, 5, 2),
                                Group(backupName, dateMatch, 8, 2),
                                <<"0", "0">>, <<"0", "0">>, <<"0", "0">>))
        ELSE Undefined

-----------------------------------------------------------------------------
(* Retention days *)

DEFAULT_PRUNE_DAYS == 14

RECURSIVE SkipSpaces(_)
SkipSpaces(s) == IF Len(s) > 0 /\ s[1] = " " THEN SkipSpaces(Tail(s)) ELSE s

RECURSIVE LeadingDigits(_)
LeadingDigits(s) ==
    IF Len(s) > 0 /\ IsDigit(s[1]) THEN <<s[1]>> \o LeadingDigits(Tail(s)) ELSE <<>>

\* parseInt(s, 10): Undefined stands for NaN.
parseInt(s) ==
    LET t      == SkipSpaces(s)
        neg    == Len(t) > 0 /\ t[1] = "-"
        body   == IF Len(t) > 0 /\ t[1] \in {"-", "+"} THEN Tail(t) ELSE t
        digits == LeadingDigits(body)
    IN  IF Len(digits) = 0 THEN Undefined
        ELSE Some(IF neg THEN 0 - ToNumber(digits) ELSE ToNumber(digits))

\* A range check that lets 0 through (parsed >= 0).
ValidEnvDays_ZeroAccepted(parsed) == IsDefined(parsed) /\ Get(parsed) >= 0

\* The accepted range of a parsed PRUNE_DAYS.
ValidEnvDays(parsed) == IsDefined(parsed) /\ Get(parsed) > 0

\* getPruneDays: the days to use, and whether the warning was printed.
getPruneDays(optionDays, envDays) ==
    IF IsDefined(optionDays)
    THEN [days |-> Get(optionDays), warned |-> FALSE]
    ELSE IF IsDefined(envDays) /\ Len(Get(envDays)) > 0
    THEN IF ValidEnvDays(parseInt(Get(envDays)))
         THEN [days |-> Get(parseInt(Get(envDays))), warned |-> FALSE]
         ELSE [days |-> DEFAULT_PRUNE_DAYS, warned |-> TRUE]
    ELSE [days |-> DEFAULT_PRUNE_DAYS, warned |-> FALSE]

\* cutoffDate.setDate(cutoffDate.getDate() - pruneDays), the clock being UTC.
SecondsPerDay == 86400
CutoffDate(nowTime, days) == DateOf(nowTime - days * SecondsPerDay)


-----------------------------------------------------------------------------
(* Configuration *)

IsEmpty(o) == ~IsDefined(o) \/ Len(Get(o)) = 0

DefaultPrefix == <<"b", "a", "c", "k", "u", "p", "s", "/", "m", "o", "n", "g", "o", "d", "b">>

\* getEnvOrThrow throws for a variable that is unset or empty.
RequiredKeys == {"MONGODB_DATABASE", "AWS_ACCESS_KEY_ID", "AWS_SECRET_ACCESS_KEY", "S3_BUCKET"}
LoadConfigThrows(e) == \E key \in RequiredKeys : IsEmpty(e[key])

\* loadConfig(): the s3 part of the Config.  The function declares no parameter,
\* so the { bucket, prefix } object runPrune passes to it is dropped.
loadConfig(e) ==
    [bucket |-> Get(e["S3_BUCKET"]),
     prefix |-> IF IsEmpty(e["S3_PREFIX"]) THEN DefaultPrefix ELSE Get(e["S3_PREFIX"])]

-----------------------------------------------------------------------------
(* The object store *)

\* One response of ListObjectsV2 holds at most this many keys and common prefixes;
\* neither listBackupsWithDates nor deleteBackup asks for a continuation.
MaxKeys == 1000

\* A folder is [bucket, dir, name]: its objects have the keys dir \o name \o "/" \o ...
FolderPath(f) == f.dir \o f.name \o <<"/">>

\* The strings of S in byte-wise order.
RECURSIVE SortedSeq(_)
SortedSeq(S) ==
    IF S = {} THEN <<>>
    ELSE LET m == CHOOSE x \in S : \A y \in S \ {x} : StrLess(x, y)
         IN  <<m>> \o SortedSeq(S \ {m})

\* A run is [folder, n]: the first n keys still stored in the folder.  A sequence
\* of runs stands for the keys of its runs in order.
RECURSIVE RunsLength(_)
RunsLength(runs) == IF Len(runs) = 0 THEN 0 ELSE runs[1].n + RunsLength(Tail(runs))

RECURSIVE TakeRuns(_, _)
TakeRuns(runs, k) ==
    IF Len(runs) = 0 \/ k <= 0 THEN <<>>
    ELSE IF runs[1].n <= k THEN <<runs[1]>> \o TakeRuns(Tail(runs), k - runs[1].n)
    ELSE <<[folder |-> runs[1].folder, n |-> k]>>

RECURSIVE DropRuns(_, _)
DropRuns(runs, k) ==
    IF Len(runs) = 0 \/ k <= 0 THEN runs
    ELSE IF runs[1].n <= k THEN DropRuns(Tail(runs), k - runs[1].n)
    ELSE <<[folder |-> runs[1].folder, n |-> runs[1].n - k]>> \o Tail(runs)

\* Array.prototype.slice(from, to) on a sequence of keys.
SliceRuns(runs, from, to) == TakeRuns(DropRuns(runs, from), to - from)

\* The folders of a bucket that hold a key starting with Prefix.  (Prefix never
\* reaches into an object's own name: it ends with a folder name or with "/".)
MatchingFolders(store, Bucket, Prefix) ==
    {f \in DOMAIN store : f.bucket = Bucket /\ store[f] > 0 /\ StartsWith(FolderPath(f), Prefix)}

\* ListObjectsV2 { Bucket, Prefix }: Contents, in key order, cut at MaxKeys.
ListObjects(store, Bucket, Prefix) ==
    LET fs   == MatchingFolders(store, Bucket, Prefix)
        ps   == SortedSeq({FolderPath(f) : f \in fs})
        at(k) == CHOOSE f \in fs : FolderPath(f) = ps[k]
        all  == [k \in 1..Len(ps) |-> [folder |-> at(k), n |-> store[at(k)]]]
    IN  TakeRuns(all, MaxKeys)

\* The text of path from its position `from` to the next "/", that "/" included.
RECURSIVE UpToSlash(_, _)
UpToSlash(path, from) ==
    IF from > Len(path) THEN <<>>
    ELSE IF path[from] = "/" THEN <<"/">>
    ELSE <<path[from]>> \o UpToSlash(path, from + 1)

\* ListObjectsV2 { Bucket, Prefix, Delimiter: "/" }: CommonPrefixes, in order, cut
\* at MaxKeys.
ListCommonPrefixes(store, Bucket, Prefix) ==
    LET ps == {Prefix \o UpToSlash(FolderPath(f), Len(Prefix) + 1) :
                   f \in MatchingFolders(store, Bucket, Prefix)}
        all == SortedSeq(ps)
    IN  SubSeq(all, 1, IF Len(all) < MaxKeys THEN Len(all) ELSE MaxKeys)

\* DeleteObjects { Bucket, Delete: { Objects: batch } }: the store without the keys.
DeleteObjects(store, batch) ==
    [f \in DOMAIN store |->
        store[f] - RunsLength(SelectSeq(batch, LAMBDA r : r.folder = f))]


-----------------------------------------------------------------------------
(* listBackupsWithDates *)

\* The prefix with a trailing "/".
ListPrefix(cfg) == IF EndsWith(cfg.prefix, <<"/">>) THEN cfg.prefix ELSE cfg.prefix \o <<"/">>

\* p.replace(prefix, ""): p without the first occurrence of prefix.
Replace(p, prefix) ==
    IF \E at \in 1..Len(p) : StartsWith(SubSeq(p, at, Len(p)), prefix)
    THEN LET at == CHOOSE a \in 1..Len(p) :
                       /\ StartsWith(SubSeq(p, a, Len(p)), prefix)
                       /\ \A b \in 1..(a - 1) : ~StartsWith(SubSeq(p, b, Len(p)), prefix)
         IN  SubSeq(p, 1, at - 1) \o SubSeq(p, at + Len(prefix), Len(p))
    ELSE p

\* s.split("/").filter(Boolean)[0] || "": the first non-empty segment of s.
RECURSIVE FirstSegment(_)
FirstSegment(s) ==
    IF Len(s) = 0 THEN <<>>
    ELSE IF s[1] = "/" THEN FirstSegment(Tail(s))
    ELSE LET seg == UpToSlash(s, 1)
         IN  IF seg[Len(seg)] = "/" THEN SubSeq(seg, 1, Len(seg) - 1) ELSE seg

\* The loop over the common prefixes: an entry for every name that yields a Date
\* object (an Invalid Date is an object too), in the order of the listing.
RECURSIVE CollectBackups(_, _)
CollectBackups(prefixes, prefix) ==
    IF Len(prefixes) = 0 THEN <<>>
    ELSE LET name == FirstSegment(Replace(prefixes[1], prefix))
             date == extractDateFromBackupName(name)
             rest == CollectBackups(Tail(prefixes), prefix)
         IN  IF Len(name) = 0 THEN rest
             ELSE IF IsDefined(date) THEN <<[name |-> name, date |-> Get(date)]>> \o rest
             ELSE rest

\* (a, b) => b.date.getTime() - a.date.getTime() is negative: a goes before b.
SortsBefore(a, b) == DateLess(b.date, a.date)

\* The comparator is a consistent one unless it meets a NaN next to two different
\* time values (NaN counts as "equal" to both).
ConsistentComparator(list) ==
    \/ \A k \in 1..Len(list) : list[k].date.valid
    \/ \A k, l \in 1..Len(list) :
           (list[k].date.valid /\ list[l].date.valid) => list[k].date.time = list[l].date.time

RECURSIVE InsertSorted(_, _)
InsertSorted(x, sorted) ==
    IF Len(sorted) = 0 THEN <<x>>
    ELSE IF SortsBefore(x, sorted[1]) THEN <<x>> \o sorted
    ELSE <<sorted[1]>> \o InsertSorted(x, Tail(sorted))

RECURSIVE StableSort(_)
StableSort(list) ==
    IF Len(list) = 0 THEN <<>>
    ELSE InsertSorted(list[Len(list)], StableSort(SubSeq(list, 1, Len(list) - 1)))

Orderings(list) ==
    {[k \in 1..Len(list) |-> list[f[k]]] :
        f \in {g \in [1..Len(list) -> 1..Len(list)] :
                  \A a, b \in 1..Len(list) : a # b => g[a] # g[b]}}

\* backups.sort(...): the stable sort, most recent first; with an inconsistent
\* comparator the order is left to the implementation.
SortOutcomes(list) ==
    IF ConsistentComparator(list) THEN {StableSort(list)} ELSE Orderings(list)

-----------------------------------------------------------------------------
(* runPrune *)

batchSize == 1000

Filter(list, Test(_)) == SelectSeq(list, Test)

\* A plan that forgets the dry-run check of line 67.
Plan_DryRunIgnored(found, toDelete, dryRun) ==
    IF Len(found) = 0 THEN "none"
    ELSE IF Len(toDelete) = 0 THEN "nothing"
    ELSE "delete"

\* What runPrune does with the listing: "none" (no backups found), "nothing"
\* (no backups to prune), "dry" (dry run complete) or "delete".
Plan(found, toDelete, dryRun) ==
    IF Len(found) = 0 THEN "none"
    ELSE IF Len(toDelete) = 0 THEN "nothing"
    ELSE IF dryRun THEN "dry"
    ELSE "delete"

\* An exit status that forgets the error count.
ExitStatus_AlwaysZero(errors) == 0

\* process.exit(errorCount > 0 ? 1 : 0)
ExitStatus(errors) == IF errors > 0 THEN 1 ELSE 0

\* A deleteBackup without the check for an empty listing.
NoBackupFound_NeverThrown(listed) == FALSE

\* if (objects.length === 0) throw new Error("No backup found at ...")
NoBackupFound(listed) == RunsLength(listed) = 0

S3Prefix(cfg, backupName) == cfg.prefix \o <<"/">> \o backupName

ListRequest(Bucket, Prefix, delimiter) ==
    [op |-> "ListObjectsV2", Bucket |-> Bucket, Prefix |-> Prefix,
     Delimiter |-> delimiter, Objects |-> <<>>, outcome |-> "pending"]
DeleteRequest(Bucket, batch) ==
    [op |-> "DeleteObjects", Bucket |-> Bucket, Prefix |-> <<>>,
     Delimiter |-> FALSE, Objects |-> batch, outcome |-> "pending"]

\* The last command sent is answered ("ok") or rejects ("failed").
Answer(reqs, outcome) == [reqs EXCEPT ![Len(reqs)].outcome = outcome]

\* The number of keys the store holds under a prefix, however many a listing shows.
Held(store, Bucket, Prefix) ==
    LET fs == MatchingFolders(store, Bucket, Prefix)
        ps == SortedSeq({FolderPath(f) : f \in fs})
    IN  RunsLength([k \in 1..Len(ps) |->
                       [folder |-> CHOOSE f \in fs : FolderPath(f) = ps[k],
                        n |-> store[CHOOSE f \in fs : FolderPath(f) = ps[k]]]])

RECURSIVE TrailingDeletes(_)
TrailingDeletes(reqs) ==
    IF Len(reqs) = 0 \/ reqs[Len(reqs)].op # "DeleteObjects" THEN 0
    ELSE 1 + TrailingDeletes(SubSeq(reqs, 1, Len(reqs) - 1))

\* The record of a finished deleteBackup invocation: what it was called for, how it
\* ended, and what the store held under its path when the call was made.
CallRecord(ok, files, store, removed, reqs) ==
    [backupName |-> backupsToDelete[idx].name,
     ok |-> ok,
     deletedFiles |-> files,
     held |-> Held(store, config.bucket, S3Prefix(config, backupsToDelete[idx].name)) + removed,
     batches |-> TrailingDeletes(reqs)]

Exit(code) ==
    /\ exitCodes' = Append(exitCodes, code)
    /\ pc' = "exited"

\* Lines 29-42: the retention days, the cutoff, loadConfig and the listing request.
RunPruneStart ==
    /\ pc = "start"
    /\ pruneDays' = getPruneDays(options.days, env["PRUNE_DAYS"]).days
    /\ warned' = getPruneDays(options.days, env["PRUNE_DAYS"]).warned
    /\ cutoffDate' = CutoffDate(now, pruneDays')
    /\ IF LoadConfigThrows(env)
       THEN /\ Exit(1)
            /\ UNCHANGED <<config, requests>>
       ELSE /\ config' = loadConfig(env)
            /\ requests' = Append(requests, ListRequest(config'.bucket, ListPrefix(config'), TRUE))
            /\ pc' = "listing"
            /\ UNCHANGED exitCodes
    /\ UNCHANGED <<env, options, now, objects, backups, backupsToDelete, backupsToKeep,
                   idx, deletedCount, errorCount, objectsToDelete, i, totalDeleted, calls>>

\* Lines 62-85 and 44-73: the listing answers; the backups are collected, sorted and
\* partitioned, and the run ends or enters the deletion loop.
ListBackupsReturn ==
    /\ pc = "listing"
    /\ \E sorted \in SortOutcomes(CollectBackups(
                         ListCommonPrefixes(objects, config.bucket, ListPrefix(config)),
                         ListPrefix(config))) :
          /\ backups' = sorted
          /\ backupsToDelete' = Filter(sorted, LAMBDA b : DateLess(b.date, cutoffDate))
          /\ backupsToKeep' = Filter(sorted, LAMBDA b : DateGeq(b.date, cutoffDate))
    /\ IF Plan(backups', backupsToDelete', options.dryRun) = "delete"
       THEN /\ pc' = "loop"
            /\ UNCHANGED exitCodes
       ELSE Exit(0)
    /\ idx' = 1
    /\ deletedCount' = 0
    /\ errorCount' = 0
    /\ requests' = Answer(requests, "ok")
    /\ UNCHANGED <<env, options, now, objects, pruneDays, warned, cutoffDate, config,
                   objectsToDelete, i, totalDeleted, calls>>

\* Lines 62 and 94-96: the listing call rejects; the outer catch exits with 1.
ListBackupsThrow ==
    /\ pc = "listing"
    /\ Exit(1)
    /\ requests' = Answer(requests, "failed")
    /\ UNCHANGED <<env, options, now, objects, pruneDays, warned, cutoffDate, config,
                   backups, backupsToDelete, backupsToKeep, idx, deletedCount, errorCount,
                   objectsToDelete, i, totalDeleted, calls>>

\* Lines 75-77 and 88-98: the loop calls deleteBackup, which sends its listing.
DeleteBackupCall ==
    /\ pc = "loop"
    /\ idx <= Len(backupsToDelete)
    /\ requests' = Append(requests,
           ListRequest(config.bucket, S3Prefix(config, backupsToDelete[idx].name), FALSE))
    /\ pc' = "delListing"
    /\ UNCHANGED <<env, options, now, objects, pruneDays, warned, cutoffDate, config,
                   backups, backupsToDelete, backupsToKeep, idx, deletedCount, errorCount,
                   objectsToDelete, i, totalDeleted, calls, exitCodes>>

\* A catch that counts the error and leaves the loop.
CatchDeleteError_LoopAborted ==
    /\ errorCount' = errorCount + 1
    /\ idx' = Len(backupsToDelete) + 1
    /\ pc' = "loop"
    /\ UNCHANGED deletedCount

\* Lines 80-83: the catch of the loop body counts the error and goes on.
CatchDeleteError ==
    /\ errorCount' = errorCount + 1
    /\ idx' = idx + 1
    /\ pc' = "loop"
    /\ UNCHANGED deletedCount

\* Lines 78-79: deleteBackup returned.
DeleteBackupReturned ==
    /\ deletedCount' = deletedCount + 1
    /\ idx' = idx + 1
    /\ pc' = "loop"
    /\ UNCHANGED errorCount

\* Lines 98-127: the listing of the backup's objects answers.
DeleteListReturn ==
    /\ pc = "delListing"
    /\ LET listed == ListObjects(objects, config.bucket, S3Prefix(config, backupsToDelete[idx].name))
       IN  IF NoBackupFound(listed)
           THEN /\ CatchDeleteError
                /\ calls' = Append(calls, CallRecord(FALSE, 0, objects, 0, requests))
                /\ requests' = Answer(requests, "ok")
                /\ UNCHANGED <<objectsToDelete, i, totalDeleted>>
           ELSE IF RunsLength(listed) = 0
           THEN /\ DeleteBackupReturned
                /\ calls' = Append(calls, CallRecord(TRUE, 0, objects, 0, requests))
                /\ requests' = Answer(requests, "ok")
                /\ UNCHANGED <<objectsToDelete, i, totalDeleted>>
           ELSE /\ objectsToDelete' = listed
                /\ i' = 0
                /\ totalDeleted' = 0
                /\ requests' = Append(Answer(requests, "ok"),
                       DeleteRequest(config.bucket, SliceRuns(listed, 0, batchSize)))
                /\ pc' = "delBatch"
                /\ UNCHANGED <<idx, deletedCount, errorCount, calls>>
    /\ UNCHANGED <<env, options, now, objects, pruneDays, warned, cutoffDate, config,
                   backups, backupsToDelete, backupsToKeep, exitCodes>>

\* Line 98: the listing of the backup's objects rejects.
DeleteListThrow ==
    /\ pc = "delListing"
    /\ CatchDeleteError
    /\ calls' = Append(calls, CallRecord(FALSE, 0, objects, 0, requests))
    /\ requests' = Answer(requests, "failed")
    /\ UNCHANGED <<env, options, now, objects, pruneDays, warned, cutoffDate, config,
                   backups, backupsToDelete, backupsToKeep, objectsToDelete, i, totalDeleted,
                   exitCodes>>

\* Lines 118-136: a DeleteObjects call answers; the next batch is sent, or
\* deleteBackup returns.
DeleteBatchReturn ==
    /\ pc = "delBatch"
    /\ LET batch == SliceRuns(objectsToDelete, i, i + batchSize)
       IN  /\ objects' = DeleteObjects(objects, batch)
           /\ totalDeleted' = totalDeleted + RunsLength(batch)
           /\ i' = i + batchSize
           /\ IF i' < RunsLength(objectsToDelete)
              THEN /\ requests' = Append(Answer(requests, "ok"),
                          DeleteRequest(config.bucket,
                                        SliceRuns(objectsToDelete, i', i' + batchSize)))
                   /\ UNCHANGED <<pc, idx, deletedCount, errorCount, calls>>
              ELSE /\ DeleteBackupReturned
                   /\ calls' = Append(calls, CallRecord(TRUE, totalDeleted', objects', totalDeleted', requests))
                   /\ requests' = Answer(requests, "ok")
    /\ UNCHANGED <<env, options, now, pruneDays, warned, cutoffDate, config,
                   backups, backupsToDelete, backupsToKeep, objectsToDelete, exitCodes>>

\* Line 129: a DeleteObjects call rejects, the store having applied it or not.
DeleteBatchThrow ==
    /\ pc = "delBatch"
    /\ \E applied \in BOOLEAN :
          objects' = IF applied
                     THEN DeleteObjects(objects, SliceRuns(objectsToDelete, i, i + batchSize))
                     ELSE objects
    /\ CatchDeleteError
    /\ calls' = Append(calls, CallRecord(FALSE, 0, objects, totalDeleted, requests))
    /\ requests' = Answer(requests, "failed")
    /\ UNCHANGED <<env, options, now, pruneDays, warned, cutoffDate, config,
                   backups, backupsToDelete, backupsToKeep, objectsToDelete, i, totalDeleted,
                   exitCodes>>

\* Lines 86-93: the loop is over.
PruneLoopEnd ==
    /\ pc = "loop"
    /\ idx > Len(backupsToDelete)
    /\ Exit(ExitStatus(errorCount))
    /\ UNCHANGED <<env, options, now, objects, pruneDays, warned, cutoffDate, config,
                   backups, backupsToDelete, backupsToKeep, idx, deletedCount, errorCount,
                   objectsToDelete, i, totalDeleted, requests, calls>>

Next ==
    \/ RunPruneStart
    \/ ListBackupsReturn
    \/ ListBackupsThrow
    \/ DeleteBackupCall
    \/ DeleteListReturn
    \/ DeleteListThrow
    \/ DeleteBatchReturn
    \/ DeleteBatchThrow
    \/ PruneLoopEnd


-----------------------------------------------------------------------------
(* Inputs *)

Str1(c) == <<c>>
DB == <<"d", "b", "-">>
Dash == <<"-">>
DateText(y, m, d) == Num(y, 4) \o Dash \o Num(m, 2) \o Dash \o Num(d, 2)
TimeText(h, m, s, sep) == Num(h, 2) \o sep \o Num(m, 2) \o sep \o Num(s, 2)

NameDate      == DB \o DateText(2024, 1, 15)                                    \* db-2024-01-15
NameEvening   == DB \o DateText(2024, 1, 15) \o Dash \o TimeText(18, 0, 0, Dash) \* db-2024-01-15-18-00-00
NameMidnight  == DB \o DateText(2024, 1, 15) \o <<"T">> \o TimeText(0, 0, 0, <<":">>) \* db-2024-01-15T00:00:00
NameOld       == DB \o DateText(2024, 1, 10) \o Dash \o TimeText(3, 30, 0, Dash) \* db-2024-01-10-03-30-00
NameNew       == DB \o DateText(2024, 2, 20)                                    \* db-2024-02-20
NameBadDigits == DB \o DateText(2024, 13, 45)                                   \* db-2024-13-45
NameNoDate    == DB \o <<"b", "a", "c", "k", "u", "p">>                         \* db-backup

Names == {NameDate, NameEvening, NameMidnight, NameOld, NameNew, NameBadDigits, NameNoDate}

\* The most folders a bucket starts with.
MaxFolders == 3

ObjectCounts == {1, MaxKeys + 1}

\* Instants of new Date(): 14 days after 2024-01-15T00:00:00Z, 12 hours later, and
\* 2024-03-15T00:00:00Z.
NowChoices == {UTCSeconds(2024, 1, 29, 0, 0, 0), UTCSeconds(2024, 1, 29, 12, 0, 0),
               UTCSeconds(2024, 3, 15, 0, 0, 0)}

EnvBucket == Str1("b")
EnvPrefix == Str1("p")
OptBucket == Str1("o")
OptPrefix == Str1("q")

Environment(days, bucket, prefix) ==
    [PRUNE_DAYS |-> days, S3_BUCKET |-> bucket, S3_PREFIX |-> prefix,
     MONGODB_DATABASE |-> Some(Str1("d")), AWS_ACCESS_KEY_ID |-> Some(Str1("k")),
     AWS_SECRET_ACCESS_KEY |-> Some(Str1("s"))]

Options(bucket, prefix, days, dryRun) ==
    [bucket |-> bucket, prefix |-> prefix, days |-> days, dryRun |-> dryRun]

\* The stores of at most MaxFolders folders under one bucket and directory.
Stores(bucket, dir) ==
    UNION {[{[bucket |-> bucket, dir |-> dir, name |-> n] : n \in ns} -> ObjectCounts] :
              ns \in {x \in SUBSET Names : Cardinality(x) <= MaxFolders}}

\* Runs that differ in what the bucket holds, in the clock and in the dry-run
\* flag, with the environment complete or without S3_BUCKET.
StoreInputs ==
    /\ env \in {Environment(Undefined, Some(EnvBucket), Some(EnvPrefix)),
                Environment(Undefined, Undefined, Some(EnvPrefix))}
    /\ options \in {Options(Undefined, Undefined, Undefined, dry) : dry \in BOOLEAN}
    /\ now \in NowChoices
    /\ objects \in Stores(EnvBucket, EnvPrefix \o <<"/">>)

\* Runs that differ in the days option and in PRUNE_DAYS.
DaysOptions == {Undefined, Some(0), Some(0 - 2), Some(1), Some(30)}
DaysTexts == {Undefined, Some(<<>>), Some(<<"a", "b", "c">>), Some(Str1("0")), Some(Str1("7")),
              Some(<<"-", "3">>), Some(<<"7", "x">>), Some(<<" ", "5">>), Some(<<"+", "2">>)}
DaysInputs ==
    /\ env \in {Environment(text, Some(EnvBucket), Some(EnvPrefix)) : text \in DaysTexts}
    /\ options \in {Options(Undefined, Undefined, days, FALSE) : days \in DaysOptions}
    /\ now \in NowChoices
    /\ objects \in [{[bucket |-> EnvBucket, dir |-> EnvPrefix \o <<"/">>, name |-> n] :
                        n \in {NameOld, NameDate, NameNew}} -> {1}]

\* Runs that differ in the bucket and prefix options and in S3_PREFIX, every
\* bucket holding the same folders under every directory.
PrefixTexts == {Undefined, Some(<<>>), Some(EnvPrefix), Some(EnvPrefix \o <<"/">>)}
Directories == {DefaultPrefix \o <<"/">>, EnvPrefix \o <<"/">>, OptPrefix \o <<"/">>}
LocationInputs ==
    /\ env \in {Environment(Undefined, Some(EnvBucket), text) : text \in PrefixTexts}
    /\ options \in {Options(bucket, prefix, Undefined, dry) :
                        bucket \in {Undefined, Some(OptBucket)},
                        prefix \in {Undefined, Some(OptPrefix)},
                        dry \in BOOLEAN}
    /\ now \in NowChoices
    /\ objects \in [{[bucket |-> b, dir |-> d, name |-> n] :
                        b \in {EnvBucket, OptBucket}, d \in Directories,
                        n \in {NameOld, NameDate}} -> {1}]

Init ==
    /\ (StoreInputs \/ DaysInputs \/ LocationInputs)
    /\ pc = "start"
    /\ pruneDays = 0
    /\ warned = FALSE
    /\ cutoffDate = InvalidDate
    /\ config = [bucket |-> <<>>, prefix |-> <<>>]
    /\ backups = <<>>
    /\ backupsToDelete = <<>>
    /\ backupsToKeep = <<>>
    /\ idx = 1
    /\ deletedCount = 0
    /\ errorCount = 0
    /\ objectsToDelete = <<>>
    /\ i = 0
    /\ totalDeleted = 0
    /\ requests = <<>>
    /\ calls = <<>>
    /\ exitCodes = <<>>

Spec == Init /\ [][Next]_vars


-----------------------------------------------------------------------------
(* Properties *)

Indices(seq) == 1..Len(seq)
CountCalls(ok) == Cardinality({k \in Indices(calls) : calls[k].ok = ok})
DeleteRequests == {k \in Indices(requests) : requests[k].op = "DeleteObjects"}
BackupListings == {k \in Indices(requests) :
                      requests[k].op = "ListObjectsV2" /\ ~requests[k].Delimiter}
ConfigLoaded == pc # "start" /\ ~LoadConfigThrows(env)
Listed == ConfigLoaded /\ requests[1].outcome = "ok"
InDeleteBackup == pc \in {"delListing", "delBatch"}
NamesOf(list) == {list[k].name : k \in Indices(list)}
\* The folders under the listed prefix when the run began (a folder is in the
\* store's domain from the start, and holds objects then).
ListedNames == {f.name : f \in {g \in DOMAIN objects :
                                   g.bucket = config.bucket /\ g.dir = ListPrefix(config)}}

\* C1: every key submitted in a DeleteObjects request lies under {prefix}/{name}/
\* for a backup `name` of toDelete; no key of a kept or unparsable folder is
\* submitted.
C1_OnlyPrunedBackupsSubmitted ==
    \A k \in DeleteRequests : \A r \in Indices(requests[k].Objects) :
        LET folder == requests[k].Objects[r].folder
        IN  /\ folder.name \in NamesOf(backupsToDelete)
            /\ folder.name \notin NamesOf(backupsToKeep)
            /\ folder.dir = ListPrefix(config)

\* C2: for retention days > 0, every backup listBackupsWithDates returned is in
\* exactly one of toDelete and toKeep, in toDelete iff dated before the cutoff,
\* so the two sizes add up to the number of backups found.
C2_PartitionTotalAndDisjoint ==
    (Listed /\ pruneDays > 0) =>
        /\ Len(backupsToDelete) + Len(backupsToKeep) = Len(backups)
        /\ \A k \in Indices(backups) :
               /\ (backups[k] \in {backupsToDelete[l] : l \in Indices(backupsToDelete)})
                      # (backups[k] \in {backupsToKeep[l] : l \in Indices(backupsToKeep)})
               /\ (backups[k] \in {backupsToDelete[l] : l \in Indices(backupsToDelete)})
                      <=> DateLess(backups[k].date, cutoffDate)

\* C3: a deleteBackup whose storage calls all succeed, on a path holding n >= 1
\* objects, submits all n keys in ceil(n / 1000) requests of at most 1000 keys
\* and returns deletedFiles = n.
C3_EveryObjectDeletedInBatches ==
    /\ \A k \in Indices(calls) :
           (calls[k].ok /\ calls[k].held >= 1) =>
               /\ calls[k].deletedFiles = calls[k].held
               /\ calls[k].batches = (calls[k].held + batchSize - 1) \div batchSize
    /\ \A k \in DeleteRequests : RunsLength(requests[k].Objects) <= batchSize

\* C4: deleteBackup is invoked once for every backup of toDelete, one at a time and
\* in the order of the list, whether or not an earlier invocation failed; when
\* the loop ends deletedCount is the number of invocations that succeeded,
\* errorCount the number that failed, and they add up to |toDelete|.
C4_EveryBackupAttemptedInOrder ==
    /\ Len(calls) <= Len(backupsToDelete)
    /\ \A k \in Indices(calls) : calls[k].backupName = backupsToDelete[k].name
    /\ Cardinality(BackupListings) = Len(calls) + (IF InDeleteBackup THEN 1 ELSE 0)
    /\ deletedCount = CountCalls(TRUE)
    /\ errorCount = CountCalls(FALSE)
    /\ (pc = "exited" /\ Listed /\ Plan(backups, backupsToDelete, options.dryRun) = "delete") =>
           /\ Len(calls) = Len(backupsToDelete)
           /\ deletedCount + errorCount = Len(backupsToDelete)
    /\ \A k \in Indices(calls) :
           calls[k].ok =>
               Held(objects, config.bucket, S3Prefix(config, calls[k].backupName))
                   <= calls[k].held - calls[k].deletedFiles

\* A failed deletion was followed by a successful one, and the run is over.
C4_Witness ==
    /\ pc = "exited"
    /\ \E k, l \in Indices(calls) : k < l /\ ~calls[k].ok /\ calls[l].ok

C6_NoDeletionUnlessPlanned ==
    /\ (Listed /\ (options.dryRun \/ Len(backups) = 0 \/ Len(backupsToDelete) = 0)) =>
           /\ pc = "exited"
           /\ exitCodes = <<0>>
           /\ calls = <<>>
           /\ BackupListings = {}
           /\ DeleteRequests = {}
    /\ (BackupListings # {} \/ DeleteRequests # {} \/ calls # <<>>) =>
           (~options.dryRun /\ Len(backupsToDelete) > 0)

\* A dry run that had backups to delete ended with 0.
C6_Witness ==
    /\ pc = "exited"
    /\ options.dryRun
    /\ Len(backupsToDelete) > 0
    /\ exitCodes = <<0>>

\* C7: the listing and every deletion call address options.bucket and
\* options.prefix when given, the environment's values only otherwise.
C7_OverridesAddressed ==
    \A k \in Indices(requests) :
        /\ requests[k].Bucket =
               (IF IsDefined(options.bucket) THEN Get(options.bucket) ELSE Get(env["S3_BUCKET"]))
        /\ requests[k].op = "ListObjectsV2" =>
               StartsWith(requests[k].Prefix,
                          IF IsDefined(options.prefix) THEN Get(options.prefix)
                          ELSE IF IsEmpty(env["S3_PREFIX"]) THEN DefaultPrefix
                          ELSE Get(env["S3_PREFIX"]))

\* C8: the retention days are the days option when given; else PRUNE_DAYS when it
\* parses as an integer > 0; else 14.  An invalid PRUNE_DAYS ("abc", "0") gives 14
\* with a warning and the run goes on.
C8_RetentionDaysResolution ==
    pc # "start" =>
        LET text == env["PRUNE_DAYS"] IN
        /\ IsDefined(options.days) => (pruneDays = Get(options.days) /\ ~warned)
        /\ (~IsDefined(options.days) /\ IsEmpty(text)) => (pruneDays = 14 /\ ~warned)
        /\ (~IsDefined(options.days) /\ ~IsEmpty(text)) =>
               /\ (IsDefined(parseInt(Get(text))) /\ Get(parseInt(Get(text))) > 0) =>
                      (pruneDays = Get(parseInt(Get(text))) /\ ~warned)
               /\ ~(IsDefined(parseInt(Get(text))) /\ Get(parseInt(Get(text))) > 0) =>
                      (pruneDays = 14 /\ warned)
        /\ (~IsDefined(options.days) /\ text = Some(Str1("7"))) => pruneDays = 7
        /\ (~IsDefined(options.days) /\ text \in {Some(<<"a", "b", "c">>), Some(Str1("0"))}) =>
               /\ pruneDays = 14
               /\ warned
               /\ ConfigLoaded => Len(requests) >= 1

\* PRUNE_DAYS is "0", no days option is given, and the run went on with 14 days.
C8_Witness ==
    /\ pc = "loop"
    /\ ~IsDefined(options.days)
    /\ env["PRUNE_DAYS"] = Some(Str1("0"))
    /\ pruneDays = 14
    /\ warned

\* C9: listBackupsWithDates returns one entry for every folder whose name contains
\* a date pattern and none for the others; an entry's date is the UTC instant its
\* name spells; the entries are ordered by non-increasing date.
C9_ListingDatedAndOrdered ==
    Listed =>
        /\ Len(backups) = Cardinality(NamesOf(backups))
        /\ NamesOf(backups) = {n \in ListedNames : Match(n, DateRegex) # 0}
        /\ \A k \in Indices(backups) : backups[k].date.valid
        /\ \A k, l \in Indices(backups) : k < l => DateGeq(backups[k].date, backups[l].date)

\* C10: a deleteBackup whose listing shows no object fails without sending a
\* DeleteObjects request; the prune loop counts it as one error, leaves
\* deletedCount alone and goes on with the next backup.
C10_EmptyListingIsAnError ==
    [][(/\ pc = "delListing"
        /\ requests'[Len(requests)].outcome = "ok"
        /\ Held(objects, config.bucket, S3Prefix(config, backupsToDelete[idx].name)) = 0)
       => /\ errorCount' = errorCount + 1
          /\ deletedCount' = deletedCount
          /\ Len(requests') = Len(requests)
          /\ objects' = objects
          /\ Len(calls') = Len(calls) + 1
          /\ ~calls'[Len(calls')].ok
          /\ idx' = idx + 1
          /\ pc' = "loop"]_vars

\* A deleteBackup found nothing under its path, was counted as an error, and a
\* later backup was still attempted.
C10_Witness ==
    \E k, l \in Indices(calls) :
        /\ k < l
        /\ calls[k].held = 0
        /\ ~calls[k].ok
        /\ requests[CHOOSE r \in BackupListings :
                        Cardinality({q \in BackupListings : q <= r}) = k].outcome = "ok"


=============================================================================
